---- MODULE Spec2Model ----
(***************************************************************************)
(* ReviewReplyFileAttachmentCommentResource                                *)
(* (reviewboard/webapi/resources/review_reply_file_attachment_comment.py). *)
(*                                                                         *)
(* The store is the relational state the resource reads and writes: the    *)
(* reply-comment rows, the many-to-many relation between a review reply    *)
(* and its file attachment comments, and the public flag of each reply.    *)
(* Request handlers run one per web worker against that shared store.      *)
(* Each handler is one step.  In addition one create request at a time may *)
(* be preempted between its reads (lines 77-110) and its writes (lines     *)
(* 112-127) while other requests are served: reads commute with reads, so  *)
(* every interleaving of two overlapping create requests leads to a store  *)
(* that this schedule also reaches.                                        *)
(***************************************************************************)
EXTENDS Integers, FiniteSets, Sequences, TLC

VARIABLES comments, file_attachment_comments, public, next_id,
          inflight, request, response, returned_201

\* comments                  the reply-comment rows, by id
\* file_attachment_comments  the comment ids in each reply's collection
\* public                    whether each reply is published
\* next_id                   the next id of the comment table's sequence
\* inflight                  the local variables of the preempted create
\* request, response         the request just handled and its response
\* returned_201              history: for each comment id returned with a
\*                           201, the <<reply, original comment>> it was for

store == <<comments, file_attachment_comments, public, next_id>>
vars == <<comments, file_attachment_comments, public, next_id,
          inflight, request, response, returned_201>>

----------------------------------------------------------------------------
(* Bounds of the model. *)

\* Number of comment rows the model lets the table's id sequence hand out.
MaxInserts == 2

----------------------------------------------------------------------------
(* Fixture: one review request, two published reviews, two draft replies   *)
(* to review 10 owned by different users, two original file comments.      *)

ReviewRequests == {1}
Reviews == {10, 20}
Replies == {11, 12}
OrigComments == {1, 2}

\* Request paths <<review request id, review id, reply id>>: the two replies,
\* reply 12 under the wrong review, and a review request that does not exist.
Paths == {<<1, 10, 11>>, <<1, 10, 12>>, <<1, 20, 12>>, <<0, 10, 11>>}

base_reply_to == (11 :> 10) @@ (12 :> 10)
reply_user == (11 :> "alice") @@ (12 :> "bob")
orig_file_attachment == (1 :> 71) @@ (2 :> 72)

\* Reply comments are rows of the table that already holds the original
\* comments: the id sequence continues after them.
FirstId == Cardinality(OrigComments) + 1

Anonymous == "anonymous"
Users == {"alice", "bob"}
Ids == FirstId..(FirstId + MaxInserts - 1)

NoValue == "none"
\* An optional text argument: NoText when the field is not in the request,
\* <<t>> when it is supplied as t.
NoText == <<>>
Texts == {<<"*">>}
TextTypes == {"plain", "markdown"}

Idle == [pc |-> "idle"]
NoLocation == <<>>
NoRequest == [op |-> "none"]
NoResponse == [status |-> 0, comment |-> 0,
               location |-> NoLocation, field |-> NoValue]

----------------------------------------------------------------------------
(* Text handling of the shared update routine. *)

Special == {"*", "\\"}

RECURSIVE markdown_escape(_)
markdown_escape(t) ==
    IF t = <<>> THEN <<>>
    ELSE IF Head(t) \in Special
         THEN <<"\\", Head(t)>> \o markdown_escape(Tail(t))
         ELSE <<Head(t)>> \o markdown_escape(Tail(t))

RECURSIVE markdown_unescape(_)
markdown_unescape(t) ==
    IF t = <<>> THEN <<>>
    ELSE IF Head(t) = "\\" /\ Len(t) > 1 /\ t[2] \in Special
         THEN <<t[2]>> \o markdown_unescape(Tail(Tail(t)))
         ELSE <<Head(t)>> \o markdown_unescape(Tail(t))

\* update_comment(comment, is_reply=True, text=..., text_type=...): the
\* field values of the comment after the routine, before it is saved.
update_comment(c, text, text_type) ==
    LET new_type == IF text_type = NoValue THEN c.text_type ELSE text_type
        new_text == IF text # NoText THEN text[1]
                    ELSE IF new_type = c.text_type THEN c.text
                    ELSE IF new_type = "markdown" THEN markdown_escape(c.text)
                    ELSE markdown_unescape(c.text)
    IN  [c EXCEPT !.text = new_text, !.text_type = new_type]

----------------------------------------------------------------------------
(* Lookups. *)

\* resources.review_request.get_object
review_request_exists(review_request_id) ==
    review_request_id \in ReviewRequests

\* resources.review_reply.get_object: the reply named by the path, under
\* the review named by the path.
reply_exists(review_id, reply_id) ==
    /\ reply_id \in Replies
    /\ base_reply_to[reply_id] = review_id

\* resources.review_reply.has_modify_permissions
has_modify_permissions(user, reply) ==
    /\ ~public[reply]
    /\ reply_user[reply] = user

\* resources.review_file_attachment_comment.get_object(comment_id=...)
orig_comment_exists(reply_to_id) == reply_to_id \in OrigComments

\* The base queryset: every stored file attachment comment.
base_queryset == DOMAIN comments

\* The reviews a comment row belongs to (reverse side of the relation).
reviews_of(id) == {r \in Replies : id \in file_attachment_comments[r]}

\* get_queryset with the review__base_reply_to condition left out.
get_queryset_no_base_filter(review_id, reply_id) ==
    {id \in base_queryset : \E r \in reviews_of(id) : r = reply_id}

\* get_queryset: filter(review=reply_id, review__base_reply_to=review_id)
get_queryset(review_id, reply_id) ==
    {id \in base_queryset :
        \E r \in reviews_of(id) : r = reply_id /\ base_reply_to[r] = review_id}

\* q.filter(Q(reply_to=comment) & Q(review=reply))
existing_replies(review_id, reply_id, reply_to_id) ==
    {id \in get_queryset(review_id, reply_id) :
        /\ comments[id].reply_to = reply_to_id
        /\ reply_id \in reviews_of(id)}

\* Model.save(): update the row with this primary key, insert it if absent.
save(id, row) ==
    IF id \in DOMAIN comments
    THEN [comments EXCEPT ![id] = row]
    ELSE comments @@ (id :> row)

\* get_href(new_comment, ...)
get_href(reply_id, id) == <<base_reply_to[reply_id], reply_id, id>>

----------------------------------------------------------------------------
TypeOK ==
    /\ DOMAIN comments \subseteq Ids
    /\ \A id \in DOMAIN comments :
          /\ comments[id].reply_to \in OrigComments
          /\ comments[id].text_type \in TextTypes
    /\ file_attachment_comments \in [Replies -> SUBSET Ids]
    /\ public \in [Replies -> BOOLEAN]
    /\ next_id \in FirstId..(FirstId + MaxInserts)
    /\ inflight.pc \in {"idle", "write"}
    /\ request.op \in {"none", "create", "update", "delete"}
    /\ response.status \in {0, 200, 201, 204, 303, 400, 401, 403, 404, 500}
    /\ DOMAIN returned_201 \subseteq Ids

Init ==
    /\ comments = <<>>
    /\ file_attachment_comments = [r \in Replies |-> {}]
    /\ public = [r \in Replies |-> FALSE]
    /\ next_id = FirstId
    /\ inflight = Idle
    /\ request = NoRequest
    /\ response = NoResponse
    /\ returned_201 = <<>>

\* The handler's return value.
Respond(status, comment, location, field) ==
    response' = [status |-> status, comment |-> comment,
                 location |-> location, field |-> field]

----------------------------------------------------------------------------
(* create, lines 56-110: decorators, lookups, permission check, and the    *)
(* query for an existing reply comment.                                    *)

\* create without the has_modify_permissions check of lines 83-84.
create_status_no_permission_check(rq) ==
    IF rq.user = Anonymous THEN 401
    ELSE IF ~(review_request_exists(rq.review_request_id)
              /\ reply_exists(rq.review_id, rq.reply_id)) THEN 404
    ELSE IF ~orig_comment_exists(rq.reply_to_id) THEN 400
    ELSE IF Cardinality(existing_replies(rq.review_id, rq.reply_id,
                                         rq.reply_to_id)) > 1 THEN 500
    ELSE 0

\* create resolving reply_to_id (lines 86-96) before lines 77-84.
create_status_reply_to_first(rq) ==
    IF rq.user = Anonymous THEN 401
    ELSE IF ~orig_comment_exists(rq.reply_to_id) THEN 400
    ELSE IF ~(review_request_exists(rq.review_request_id)
              /\ reply_exists(rq.review_id, rq.reply_id)) THEN 404
    ELSE IF ~has_modify_permissions(rq.user, rq.reply_id) THEN 403
    ELSE IF Cardinality(existing_replies(rq.review_id, rq.reply_id,
                                         rq.reply_to_id)) > 1 THEN 500
    ELSE 0

\* The status create returns before line 112, 0 if it gets that far; 500 is
\* q.get() raising MultipleObjectsReturned, which line 107 does not catch.
create_status(rq) ==
    IF rq.user = Anonymous THEN 401
    ELSE IF ~(review_request_exists(rq.review_request_id)
              /\ reply_exists(rq.review_id, rq.reply_id)) THEN 404
    ELSE IF ~has_modify_permissions(rq.user, rq.reply_id) THEN 403
    ELSE IF ~orig_comment_exists(rq.reply_to_id) THEN 400
    ELSE IF Cardinality(existing_replies(rq.review_id, rq.reply_id,
                                         rq.reply_to_id)) > 1 THEN 500
    ELSE 0

\* create whose query of lines 98-102 never finds the existing reply.
create_locals_never_found(rq) ==
    [pc |-> "write",
     request |-> rq,
     reply |-> [public |-> public[rq.reply_id]],
     is_new |-> TRUE,
     new_comment |-> 0]

\* The handler's local variables once line 110 is reached: reply is the reply
\* object as line 79 loaded it.
create_locals(rq) ==
    LET found == existing_replies(rq.review_id, rq.reply_id, rq.reply_to_id)
    IN  [pc |-> "write",
         request |-> rq,
         reply |-> [public |-> public[rq.reply_id]],
         is_new |-> (found = {}),
         new_comment |-> IF found = {} THEN 0 ELSE CHOOSE id \in found : TRUE]

\* The new comment built without the original's file attachment.
new_row_no_attachment(reply_to_id) ==
    [reply_to |-> reply_to_id,
     file_attachment |-> 0,
     text |-> <<>>,
     text_type |-> "plain"]

\* self.model(file_attachment=comment.file_attachment, reply_to=comment)
new_row(reply_to_id) ==
    [reply_to |-> reply_to_id,
     file_attachment |-> orig_file_attachment[reply_to_id],
     text |-> <<>>,
     text_type |-> "plain"]

\* Lines 112-127 as a conditional insert: the existence query is repeated at
\* the time of the write, and a reply found by then is updated instead.
create_write_rechecks(l) ==
    LET rq == l.request
        found == existing_replies(rq.review_id, rq.reply_id, rq.reply_to_id)
        is_new == l.is_new /\ found = {}
        id == IF is_new THEN next_id
              ELSE IF l.is_new THEN CHOOSE x \in found : TRUE
              ELSE l.new_comment
        old == IF is_new THEN new_row(rq.reply_to_id) ELSE comments[id]
        row == update_comment(old, rq.text, rq.text_type)
    IN
    /\ is_new => next_id < FirstId + MaxInserts
    /\ comments' = save(id, row)
    /\ IF is_new
       THEN /\ next_id' = next_id + 1
            /\ file_attachment_comments' =
                  [file_attachment_comments EXCEPT ![rq.reply_id] = @ \cup {id}]
            /\ public' = [public EXCEPT ![rq.reply_id] = l.reply.public]
            /\ Respond(201, id, NoLocation, NoValue)
            /\ returned_201' =
                  returned_201 @@ (id :> <<rq.reply_id, rq.reply_to_id>>)
       ELSE /\ Respond(303, id, get_href(rq.reply_id, id), NoValue)
            /\ UNCHANGED <<next_id, file_attachment_comments, public,
                           returned_201>>

(* create, lines 112-127: update_comment saves the comment; a new comment  *)
(* is then added to the reply's collection and the reply is saved, which   *)
(* writes every field of the reply object back as line 79 loaded it.       *)
create_write(l) ==
    LET rq == l.request
        id == IF l.is_new THEN next_id ELSE l.new_comment
        old == IF l.is_new THEN new_row(rq.reply_to_id) ELSE comments[id]
        row == update_comment(old, rq.text, rq.text_type)
    IN
    /\ l.is_new => next_id < FirstId + MaxInserts
    /\ comments' = save(id, row)
    /\ IF l.is_new
       THEN /\ next_id' = next_id + 1
            /\ file_attachment_comments' =
                  [file_attachment_comments EXCEPT ![rq.reply_id] = @ \cup {id}]
            /\ public' = [public EXCEPT ![rq.reply_id] = l.reply.public]
            /\ Respond(201, id, NoLocation, NoValue)
            /\ returned_201' =
                  returned_201 @@ (id :> <<rq.reply_id, rq.reply_to_id>>)
       ELSE /\ Respond(303, id, get_href(rq.reply_id, id), NoValue)
            /\ UNCHANGED <<next_id, file_attachment_comments, public,
                           returned_201>>

\* A create request served without preemption.
create(rq) ==
    LET status == create_status(rq)
    IN
    /\ IF status # 0
       THEN /\ Respond(status, 0, NoLocation,
                       IF status = 400 THEN "reply_to_id" ELSE NoValue)
            /\ UNCHANGED <<store, returned_201>>
       ELSE create_write(create_locals(rq))
    /\ request' = rq
    /\ UNCHANGED inflight

\* A create request that found no existing reply and is preempted after
\* line 110, before it saves ...
create_lookup(rq) ==
    /\ inflight = Idle
    /\ create_status(rq) = 0
    /\ existing_replies(rq.review_id, rq.reply_id, rq.reply_to_id) = {}
    /\ inflight' = create_locals(rq)
    /\ UNCHANGED <<store, request, response, returned_201>>

\* ... and resumed at line 112.
create_resume ==
    /\ inflight # Idle
    /\ create_write(inflight)
    /\ request' = inflight.request
    /\ inflight' = Idle

----------------------------------------------------------------------------
(* update, lines 129-166. *)

\* update without the has_modify_permissions check of lines 159-160.
update_status_no_permission_check(rq) ==
    IF rq.user = Anonymous THEN 401
    ELSE IF ~(/\ review_request_exists(rq.review_request_id)
              /\ reply_exists(rq.review_id, rq.reply_id)
              /\ rq.comment_id \in get_queryset(rq.review_id, rq.reply_id))
         THEN 404
    ELSE 200

update_status(rq) ==
    IF rq.user = Anonymous THEN 401
    ELSE IF ~(/\ review_request_exists(rq.review_request_id)
              /\ reply_exists(rq.review_id, rq.reply_id)
              /\ rq.comment_id \in get_queryset(rq.review_id, rq.reply_id))
         THEN 404
    ELSE IF ~has_modify_permissions(rq.user, rq.reply_id) THEN 403
    ELSE 200

\* update that also rewrites reply_to, pointing the reply at another
\* original comment.
update_rewrites_reply_to(rq) ==
    LET status == update_status(rq)
    IN
    /\ IF status = 200
       THEN /\ comments' = save(rq.comment_id,
                   [update_comment(comments[rq.comment_id],
                                   rq.text, rq.text_type)
                       EXCEPT !.reply_to =
                           CHOOSE c \in OrigComments : c # @])
            /\ Respond(200, rq.comment_id, NoLocation, NoValue)
       ELSE /\ Respond(status, 0, NoLocation, NoValue)
            /\ UNCHANGED comments
    /\ request' = rq
    /\ UNCHANGED <<file_attachment_comments, public, next_id, inflight,
                   returned_201>>

update(rq) ==
    LET status == update_status(rq)
    IN
    /\ IF status = 200
       THEN /\ comments' = save(rq.comment_id,
                   update_comment(comments[rq.comment_id],
                                  rq.text, rq.text_type))
            /\ Respond(200, rq.comment_id, NoLocation, NoValue)
       ELSE /\ Respond(status, 0, NoLocation, NoValue)
            /\ UNCHANGED comments
    /\ request' = rq
    /\ UNCHANGED <<file_attachment_comments, public, next_id, inflight,
                   returned_201>>

----------------------------------------------------------------------------
(* delete, lines 168-179: the inherited handler.                           *)

\* has_delete_permissions of the comment resources: the owning review is a
\* draft of the caller.
has_delete_permissions(user, id) ==
    \A r \in reviews_of(id) : ~public[r] /\ reply_user[r] = user

delete_status(rq) ==
    IF rq.user = Anonymous THEN 401
    ELSE IF ~(/\ review_request_exists(rq.review_request_id)
              /\ rq.comment_id \in get_queryset(rq.review_id, rq.reply_id))
         THEN 404
    ELSE IF ~has_delete_permissions(rq.user, rq.comment_id) THEN 403
    ELSE 204

delete(rq) ==
    LET status == delete_status(rq)
    IN
    /\ IF status = 204
       THEN /\ comments' = [id \in DOMAIN comments \ {rq.comment_id} |->
                               comments[id]]
            /\ file_attachment_comments' =
                  [r \in Replies |->
                      file_attachment_comments[r] \ {rq.comment_id}]
       ELSE UNCHANGED <<comments, file_attachment_comments>>
    /\ Respond(status, 0, NoLocation, NoValue)
    /\ request' = rq
    /\ UNCHANGED <<public, next_id, inflight, returned_201>>

----------------------------------------------------------------------------
(* Publishing a reply (done through the review reply resource). *)
publish(reply_id) ==
    /\ ~public[reply_id]
    /\ public' = [public EXCEPT ![reply_id] = TRUE]
    /\ UNCHANGED <<comments, file_attachment_comments, next_id, inflight,
                   request, response, returned_201>>

----------------------------------------------------------------------------
(* Requests. *)

Callers == Users \cup {Anonymous}
ReplyToIds == OrigComments \cup {0}
CommentIds == Ids
OptTexts == {<<t>> : t \in Texts} \cup {NoText}
OptTextTypes == TextTypes \cup {NoValue}
CreateTextTypes == {NoValue, "markdown"}

Request(op, user, p, reply_to_id, comment_id, text, text_type) ==
    [op |-> op,
     user |-> user,
     review_request_id |-> p[1],
     review_id |-> p[2],
     reply_id |-> p[3],
     reply_to_id |-> reply_to_id,
     comment_id |-> comment_id,
     text |-> text,
     text_type |-> text_type]

\* POST with the required text and an optional text_type.
CreateRequests ==
    {Request("create", user, p, reply_to_id, 0, <<text>>, text_type) :
        user \in Callers, p \in Paths, reply_to_id \in ReplyToIds,
        text \in Texts, text_type \in CreateTextTypes}

\* PUT with optional text and text_type.
UpdateRequests ==
    {Request("update", user, p, 0, comment_id, text, text_type) :
        user \in Callers, p \in Paths, comment_id \in CommentIds,
        text \in OptTexts, text_type \in OptTextTypes}

DeleteRequests ==
    {Request("delete", user, p, 0, comment_id, NoText, NoValue) :
        user \in Callers, p \in Paths, comment_id \in CommentIds}

\* A worker sends the response of one request before it serves another.
ready == response = NoResponse

Create == ready /\ \E rq \in CreateRequests : create(rq)

CreateLookup == ready /\ \E rq \in CreateRequests : create_lookup(rq)

CreateResume == ready /\ create_resume

Update == ready /\ \E rq \in UpdateRequests : update(rq)

Delete == ready /\ \E rq \in DeleteRequests : delete(rq)

Publish == ready /\ \E reply_id \in Replies : publish(reply_id)

\* The response returned by a handler is sent to the client.
Deliver ==
    /\ response # NoResponse
    /\ request' = NoRequest
    /\ response' = NoResponse
    /\ UNCHANGED <<store, inflight, returned_201>>

Next ==
    \/ Create
    \/ CreateLookup
    \/ CreateResume
    \/ Update
    \/ Delete
    \/ Publish
    \/ Deliver

Spec == Init /\ [][Next]_vars

----------------------------------------------------------------------------
(* Properties. *)

\* A request resolves its review request and its reply.
resolves(rq) ==
    /\ review_request_exists(rq.review_request_id)
    /\ reply_exists(rq.review_id, rq.reply_id)

\* The caller is logged in and may modify the reply the request names.
authorised(rq) ==
    /\ rq.user \in Users
    /\ has_modify_permissions(rq.user, rq.reply_id)

\* The reply comments of (reply r, original comment c).
replies_to(r, c) ==
    {id \in DOMAIN comments :
        r \in reviews_of(id) /\ comments[id].reply_to = c}

\* The reply comments of reply r, with their fields.
reply_comments(r) ==
    [id \in file_attachment_comments[r] \cap DOMAIN comments |-> comments[id]]

\* The step returns the response to request'.
handled == response = NoResponse /\ response' # NoResponse

\* The step completes the create request that had been preempted.
resumed == inflight # Idle /\ inflight' = Idle

\* The step serves a request from its first line to its return.
served(op) == handled /\ ~resumed /\ request'.op = op

\* The step was a create that found x: 303, located at x, x rewritten in
\* place with the supplied fields, nothing inserted.
redirected_to(x) ==
    \E r \in Replies, c \in OrigComments :
        /\ r = request'.reply_id
        /\ c = request'.reply_to_id
        /\ response'.status = 303
        /\ response'.comment = x
        /\ response'.location = get_href(r, x)
        /\ DOMAIN comments' = DOMAIN comments
        /\ comments'[x].text = request'.text[1]
        /\ request'.text_type # NoValue
              => comments'[x].text_type = request'.text_type
        /\ comments'[x].reply_to = c
        /\ \A id \in DOMAIN comments \ {x} : comments'[id] = comments[id]
        /\ file_attachment_comments' = file_attachment_comments
        /\ Cardinality(replies_to(r, c)') = Cardinality(replies_to(r, c))

\* C1 as stated: once a create for (R, C) has returned 201 with comment X,
\* every later create by an authorised user for (R, C) returns 303 with a
\* Location naming X, rewrites X in place with the supplied text fields and
\* leaves the number of reply comments of (R, C) unchanged.
C1_LaterCreateAlwaysRedirects ==
    [][(served("create") /\ resolves(request') /\ authorised(request'))
          => \A x \in DOMAIN returned_201 :
                returned_201[x] = <<request'.reply_id, request'.reply_to_id>>
                => redirected_to(x)]_vars

\* C1 amended: the later create redirects to X while X is the only stored
\* reply comment of (R, C).  When X has been deleted and no reply comment of
\* (R, C) is stored, the create inserts a fresh comment and returns 201; when
\* several are stored, the existence query fails and nothing is written.
C1_LaterCreateRedirectsToStoredReply ==
    [][(served("create") /\ resolves(request') /\ authorised(request'))
          => \A x \in DOMAIN returned_201 :
                returned_201[x] = <<request'.reply_id, request'.reply_to_id>>
                => LET found == replies_to(request'.reply_id,
                                           request'.reply_to_id)
                   IN  /\ found = {x} => redirected_to(x)
                       /\ found = {}
                            => /\ response'.status = 201
                               /\ response'.comment \notin DOMAIN returned_201
                               /\ \E r \in Replies, c \in OrigComments :
                                     /\ returned_201[x] = <<r, c>>
                                     /\ replies_to(r, c)'
                                           = {response'.comment}
                       /\ Cardinality(found) > 1
                            => /\ response'.status = 500
                               /\ UNCHANGED store]_vars

\* A repeated create was redirected to the comment of an earlier 201 and
\* rewrote its text type.
C1_Witness ==
    /\ request.op = "create"
    /\ response.status = 303
    /\ response.comment \in DOMAIN returned_201
    /\ returned_201[response.comment] = <<request.reply_id, request.reply_to_id>>
    /\ response.location = get_href(request.reply_id, response.comment)
    /\ replies_to(request.reply_id, request.reply_to_id) = {response.comment}
    /\ comments[response.comment].text_type = "markdown"

\* C2: for every pair (reply R, original comment C) at most one reply
\* comment has review R and replyTo C.
C2_AtMostOneReplyPerPair ==
    \A r \in Replies, c \in OrigComments : Cardinality(replies_to(r, c)) <= 1

\* C3 as stated: a create, update or delete whose reply resolves and whose
\* caller has no modify permission on it returns 403 and changes nothing.
C3_DeniedWheneverReplyResolves ==
    [][( /\ handled /\ ~resumed
         /\ request'.user \in Users
         /\ resolves(request')
         /\ ~has_modify_permissions(request'.user, request'.reply_id) )
          => (response'.status = 403 /\ UNCHANGED store)]_vars

\* C3 amended: the request returns 403 and changes nothing when its reply
\* resolves, the caller has no modify permission on it and, for update and
\* delete, the comment it names is one of the reply's; an update or delete
\* naming any other comment returns 404, and changes nothing either.
C3_DeniedWhenTargetResolves ==
    [][( /\ handled /\ ~resumed
         /\ request'.user \in Users
         /\ resolves(request')
         /\ ~has_modify_permissions(request'.user, request'.reply_id) )
          => /\ UNCHANGED store
             /\ response'.status =
                  IF \/ request'.op = "create"
                     \/ request'.comment_id \in
                           get_queryset(request'.review_id, request'.reply_id)
                  THEN 403 ELSE 404]_vars

\* A user who does not own a draft reply was denied the deletion of one of
\* its comments.
C3_Witness ==
    /\ request.op = "delete"
    /\ response.status = 403
    /\ request.user \in Users
    /\ ~public[request.reply_id]
    /\ request.user # reply_user[request.reply_id]
    /\ request.comment_id \in get_queryset(request.review_id, request.reply_id)

inserted_for(r, c) ==
    LET x == response'.comment
    IN  /\ response'.status = 201
        /\ x \notin DOMAIN comments
        /\ x \in DOMAIN comments'
        /\ comments'[x].reply_to = c
        /\ comments'[x].file_attachment = orig_file_attachment[c]
        /\ x \in file_attachment_comments'[r]
        /\ x \in get_queryset(base_reply_to[r], r)'

\* C5: a create by an authorised user for (R, existing C) that finds no reply
\* comment of (R, C) returns 201 and leaves a stored comment X with
\* X.replyTo = C and X.fileAttachment = C.fileAttachment in R's collection.
C5_CreateInsertsReply ==
    [][\A r \in Replies, c \in OrigComments :
          /\ ( /\ served("create")
               /\ request'.reply_id = r
               /\ request'.reply_to_id = c
               /\ resolves(request')
               /\ authorised(request')
               /\ replies_to(r, c) = {} )
             => inserted_for(r, c)
          /\ ( /\ resumed
               /\ inflight.request.reply_id = r
               /\ inflight.request.reply_to_id = c )
             => inserted_for(r, c)]_vars

\* A create has just returned 201 and its comment is listed under its reply.
C5_Witness ==
    /\ request.op = "create"
    /\ response.status = 201
    /\ response.comment \in get_queryset(request.review_id, request.reply_id)
    /\ comments[response.comment].reply_to = request.reply_to_id
    /\ comments[response.comment].file_attachment =
          orig_file_attachment[request.reply_to_id]

\* C6: every create request completes with one of 201, 303, 404, 400, 403
\* and 401.
C6_CreateStatuses ==
    [][(handled /\ request'.op = "create")
          => response'.status \in {201, 303, 404, 400, 403, 401}]_vars

\* C7: a create that resolves its review request and reply, by a caller who
\* may modify the reply, with a reply_to_id that names no original comment
\* returns 400 with a field error for reply_to_id and writes nothing; with
\* such a reply_to_id a missing parent still yields 404 and a missing
\* permission 403.
C7_InvalidReplyTo ==
    [][( /\ served("create")
         /\ request'.user \in Users
         /\ ~orig_comment_exists(request'.reply_to_id) )
          => /\ UNCHANGED store
             /\ response'.status =
                  IF ~resolves(request') THEN 404
                  ELSE IF ~authorised(request') THEN 403
                  ELSE 400
             /\ response'.status = 400 <=> response'.field = "reply_to_id"]_vars

\* The owner of a draft reply was refused a create for its reply_to_id.
C7_Witness ==
    /\ request.op = "create"
    /\ response.status = 400
    /\ response.field = "reply_to_id"
    /\ ~orig_comment_exists(request.reply_to_id)
    /\ resolves(request)
    /\ authorised(request)

\* C8: the scoped listing of (review id, reply id) is exactly the stored
\* comments that were created under reply id, provided the reply is a reply
\* to review id, and is empty otherwise.
C8_ScopedListing ==
    \A review_id \in Reviews, reply_id \in Replies \cup {0} :
        get_queryset(review_id, reply_id) =
            {id \in DOMAIN comments :
                /\ reply_id \in Replies
                /\ returned_201[id][1] = reply_id
                /\ base_reply_to[reply_id] = review_id}

\* Both replies hold reply comments, so each listing has comments to leave out.
C8_Witness ==
    \A r \in Replies :
        /\ get_queryset(base_reply_to[r], r) # {}
        /\ get_queryset(base_reply_to[r], r) # DOMAIN comments

\* C9: no step changes the replyTo of a stored reply comment; it stays the
\* original comment the creating request named.
C9_ReplyToNeverChanges ==
    [][\A id \in DOMAIN comments :
          /\ comments[id].reply_to = returned_201[id][2]
          /\ id \in DOMAIN comments'
                => comments'[id].reply_to = comments[id].reply_to]_vars

\* An update has rewritten a comment, which still replies to the original
\* comment it was created for.
C9_Witness ==
    /\ request.op = "update"
    /\ response.status = 200
    /\ comments[request.comment_id].text_type = "markdown"
    /\ comments[request.comment_id].reply_to
          = returned_201[request.comment_id][2]

\* C10: a create that found no reply comment of (R, C) and is overtaken
\* before it saves still inserts its comment and returns 201, whatever has
\* been stored for (R, C) in the meantime: the number of reply comments of
\* (R, C) grows by one.
C10_CheckThenAct ==
    [][\A r \in Replies, c \in OrigComments :
          ( /\ resumed
            /\ inflight.request.reply_id = r
            /\ inflight.request.reply_to_id = c )
          => /\ response'.status = 201
             /\ response'.comment \notin DOMAIN comments
             /\ Cardinality(replies_to(r, c)') =
                   Cardinality(replies_to(r, c)) + 1]_vars

\* Two overlapping creates have both inserted a reply for the same pair.
C10_Witness ==
    /\ request.op = "create"
    /\ response.status = 201
    /\ Cardinality(replies_to(request.reply_id, request.reply_to_id)) > 1

====
